---- MODULE Spec2Model ----
\* Model of RightPanelStore (src/components/structures/RightPanel.tsx, lines 371-666):
\* the per-conversation panel history, the open flag, the mutators, the
\* view-conversation handler, the readiness hooks and the settings bridge.
EXTENDS Integers, Sequences, FiniteSets, TLC

\* ---------------------------------------------------------------- bounds
\* pushPanel is explored while the target history is shorter than this.
MaxHist == 2
\* The number of calls and events explored from the initial state.
MaxCalls == 6
\* Events whose kind need not match their conversation id are explored among
\* the first calls only.
MaxAnyCalls == 3

\* ---------------------------------------------------------------- phases
RoomMemberList == "RoomMemberList"
RoomMemberInfo == "RoomMemberInfo"
Room3pidMemberInfo == "Room3pidMemberInfo"
EncryptionPanel == "EncryptionPanel"
RoomSummary == "RoomSummary"
GroupMemberList == "GroupMemberList"
GroupRoomList == "GroupRoomList"
GroupRoomInfo == "GroupRoomInfo"
GroupMemberInfo == "GroupMemberInfo"
\* a value that is not a member of the RightPanelPhases enumeration
UnknownPhase == "UnknownPhase"
\* the phase of the empty panel returned by the getters
NullPhase == "null"

GROUP_PHASES == {GroupMemberList, GroupRoomList, GroupRoomInfo, GroupMemberInfo}

MEMBER_INFO_PHASES == {RoomMemberInfo, Room3pidMemberInfo, EncryptionPanel}

\* the members of the RightPanelPhases enumeration
RightPanelPhases ==
    GROUP_PHASES \cup
        {RoomMemberList, RoomMemberInfo, Room3pidMemberInfo, EncryptionPanel, RoomSummary,
         "FilePanel", "NotificationPanel", "Widget", "PinnedMessages", "Timeline",
         "SpaceMemberList", "SpaceMemberInfo", "Space3pidMemberInfo", "ThreadView",
         "ThreadPanel"}

\* ---------------------------------------------------------------- identifiers
Undefined == "undefined"
Null == "null"
Rooms == {"r1"}
Groups == {"g1"}
ConvIds == Rooms \cup Groups
\* keys of byRoom: the conversation ids and the key of the unset viewedRoomId
Keys == ConvIds \cup {Undefined}

ViewRoom == "view_room"
ViewGroup == "view_group"

\* ---------------------------------------------------------------- panel state
\* IPanelState: absent (null), or an object with an optional member and an
\* optional verification request.
NoState == [present |-> FALSE, member |-> "none", verificationRequest |-> "none"]
EmptyState == [present |-> TRUE, member |-> "none", verificationRequest |-> "none"]
MemberState(m) == [present |-> TRUE, member |-> m, verificationRequest |-> "none"]

\* the panel returned by the getters when there is no history entry
NoPanel == [phase |-> NullPhase, state |-> EmptyState]

\* an absent IRightPanelForRoom (undefined or null)
NoRecord == [present |-> FALSE, history |-> <<>>, isOpen |-> FALSE]

\* an absent stored value in the settings
NoStored == [present |-> FALSE, history |-> <<>>, isOpen |-> FALSE]

\* ---------------------------------------------------------------- inputs
\* the (phase, state) arguments of setPanel and pushPanel
Requests ==
    {[phase |-> RoomMemberList, state |-> NoState],
     [phase |-> RoomMemberList, state |-> MemberState("m2")],
     [phase |-> RoomMemberInfo, state |-> MemberState("m1")],
     [phase |-> RoomMemberInfo, state |-> MemberState("m2")],
     [phase |-> GroupMemberList, state |-> NoState],
     [phase |-> GroupMemberInfo, state |-> MemberState("m2")],
     [phase |-> UnknownPhase, state |-> NoState]}
\* the roomId argument: omitted (null) or an explicit conversation id
RoomIdArgs == {Null} \cup ConvIds
\* the view-conversation payloads: rooms are viewed by ViewRoom, groups by view_group
Payloads ==
    {[action |-> ViewRoom, room_id |-> r] : r \in Rooms}
        \cup {[action |-> ViewGroup, room_id |-> g] : g \in Groups}
\* every payload the handler is explored with: either action with any conversation id
AnyPayloads == [action : {ViewRoom, ViewGroup}, room_id : ConvIds]
\* the values the per-room setting can hold when the session starts
InitStored ==
    {NoStored,
     [present |-> TRUE,
      history |-> <<[phase |-> RoomMemberInfo, state |-> [memberId |-> "m2"]]>>,
      isOpen |-> TRUE]}

VARIABLES
    viewedRoomId,       \* private viewedRoomId: string
    isViewingRoom,      \* private isViewingRoom?: boolean ("undefined", "true", "false")
    byRoom,             \* private byRoom: { [roomId]: IRightPanelForRoom }
    global,             \* private global?: IRightPanelForRoom
    roomStoreToken,     \* private roomStoreToken: EventSubscription (set or not)
    dispatcherRegistered, \* onDispatch is registered with the dispatcher
    mxClient,           \* the matrix client of ReadyWatchingStore is set
    settings,           \* SettingsStore "RightPanel.phases", per room
    settingsGlobal,     \* SettingsStore "RightPanel.phasesGlobal"
    last,               \* what the most recent call did, as its caller and the subscribers saw it
    calls               \* the number of calls and events so far

vars == <<viewedRoomId, isViewingRoom, byRoom, global, roomStoreToken,
          dispatcherRegistered, mxClient, settings, settingsGlobal, last, calls>>

\* The store as one value; emits, threw and branch trace the call in progress.
Store ==
    [viewedRoomId |-> viewedRoomId, isViewingRoom |-> isViewingRoom, byRoom |-> byRoom,
     global |-> global, roomStoreToken |-> roomStoreToken,
     dispatcherRegistered |-> dispatcherRegistered, mxClient |-> mxClient,
     settings |-> settings, settingsGlobal |-> settingsGlobal,
     emits |-> 0, threw |-> FALSE, branch |-> "none"]

\* ---------------------------------------------------------------- conversions
Truthy(state) == state.present

convertCardToStore(card) == [phase |-> card.phase, state |-> [memberId |-> card.state.member]]

convertStoreToCard(stored) == [phase |-> stored.phase, state |-> MemberState(stored.state.memberId)]

convertToStoreRoom(cacheRoom) ==
    IF ~cacheRoom.present THEN NoStored
    ELSE [present |-> TRUE,
          history |-> [i \in 1..Len(cacheRoom.history) |->
                          convertCardToStore(cacheRoom.history[i])],
          isOpen |-> cacheRoom.isOpen]

convertToStateRoom(storeRoom) ==
    IF ~storeRoom.present THEN NoRecord
    ELSE [present |-> TRUE,
          history |-> [i \in 1..Len(storeRoom.history) |->
                          convertStoreToCard(storeRoom.history[i])],
          isOpen |-> storeRoom.isOpen]

\* the verification collaborator: m1 has a pending request R1, nobody else has one
pendingVerificationRequestForUser(member) == IF member = "m1" THEN "R1" ELSE "none"

\* ---------------------------------------------------------------- getters
isOpenForRoom(s) == s.byRoom[s.viewedRoomId].present /\ s.byRoom[s.viewedRoomId].isOpen

roomPhaseHistory(s) ==
    IF s.byRoom[s.viewedRoomId].present THEN s.byRoom[s.viewedRoomId].history ELSE <<>>

currentPanel(s) ==
    LET hist == roomPhaseHistory(s)
    IN IF Len(hist) >= 1 THEN hist[Len(hist)] ELSE NoPanel

currentPanelForRoom(s, roomId) ==
    LET hist == IF s.byRoom[roomId].present THEN s.byRoom[roomId].history ELSE <<>>
    IN IF Len(hist) > 0 THEN hist[Len(hist)] ELSE currentPanel(s)

\* ---------------------------------------------------------------- private helpers
Throw(s) == [s EXCEPT !.threw = TRUE]

\* variant: a persist step that writes the value of every conversation
emitAndUpdateSettings_persistsAll(s) ==
    [s EXCEPT !.settingsGlobal = convertToStoreRoom(s.global),
              !.settings = [k \in Keys |->
                               IF k # Undefined THEN convertToStoreRoom(s.byRoom[k])
                               ELSE s.settings[k]],
              !.emits = s.emits + 1]

emitAndUpdateSettings(s) ==
    LET storePanelGlobal == convertToStoreRoom(s.global)
        storePanelThisRoom == convertToStoreRoom(s.byRoom[s.viewedRoomId])
    IN [s EXCEPT !.settingsGlobal = storePanelGlobal,
                 !.settings = IF s.viewedRoomId # Undefined
                              THEN [s.settings EXCEPT ![s.viewedRoomId] = storePanelThisRoom]
                              ELSE s.settings,
                 !.emits = s.emits + 1]

\* setRightPanelCache that keeps the entries already in the history
setRightPanelCache_keepsHistory(s, targetPhase, panelState) ==
    emitAndUpdateSettings(
        [s EXCEPT !.byRoom[s.viewedRoomId] =
            [present |-> TRUE,
             history |-> Append(s.byRoom[s.viewedRoomId].history,
                                [phase |-> targetPhase,
                                 state |-> IF Truthy(panelState) THEN panelState ELSE EmptyState]),
             isOpen |-> TRUE]])

setRightPanelCache(s, targetPhase, panelState) ==
    emitAndUpdateSettings(
        [s EXCEPT !.byRoom[s.viewedRoomId] =
            [present |-> TRUE,
             history |-> <<[phase |-> targetPhase,
                            state |-> IF Truthy(panelState) THEN panelState ELSE EmptyState]>>,
             isOpen |-> TRUE]])

NoRedirect == [present |-> FALSE, phase |-> NullPhase, state |-> NoState]

getVerificationRedirect(phase, state) ==
    IF phase = RoomMemberInfo /\ Truthy(state)
    THEN LET member == state.member
             pendingRequest == pendingVerificationRequestForUser(member)
         IN IF pendingRequest # "none"
            THEN [present |-> TRUE, phase |-> EncryptionPanel,
                  state |-> [present |-> TRUE, member |-> member,
                             verificationRequest |-> pendingRequest]]
            ELSE NoRedirect
    ELSE NoRedirect

\* isPhaseActionIsValid without the check of a group phase in room mode
isPhaseActionIsValid_noGroupCheck(s, targetPhase) ==
    IF targetPhase \notin RightPanelPhases THEN FALSE
    ELSE IF targetPhase \notin GROUP_PHASES /\ s.isViewingRoom # "true" THEN FALSE
    ELSE TRUE

\* variant: isPhaseActionIsValid that takes an unset mode for room mode
isPhaseActionIsValid_unsetIsRoom(s, targetPhase) ==
    IF targetPhase \notin RightPanelPhases THEN FALSE
    ELSE IF targetPhase \in GROUP_PHASES /\ s.isViewingRoom # "false" THEN FALSE
    ELSE IF targetPhase \notin GROUP_PHASES /\ s.isViewingRoom = "false" THEN FALSE
    ELSE TRUE

isPhaseActionIsValid(s, targetPhase) ==
    IF targetPhase \notin RightPanelPhases THEN FALSE
    ELSE IF targetPhase \in GROUP_PHASES /\ s.isViewingRoom = "true" THEN FALSE
    ELSE IF targetPhase \notin GROUP_PHASES /\ s.isViewingRoom # "true" THEN FALSE
    ELSE TRUE

loadCacheFromSettings(s) ==
    LET room == s.mxClient /\ s.viewedRoomId \in Rooms
    IN IF room
       THEN [s EXCEPT !.global = IF s.global.present THEN s.global
                                 ELSE convertToStateRoom(s.settingsGlobal),
                      !.byRoom[s.viewedRoomId] =
                          IF s.byRoom[s.viewedRoomId].present THEN s.byRoom[s.viewedRoomId]
                          ELSE convertToStateRoom(s.settings[s.viewedRoomId])]
       ELSE s

\* ---------------------------------------------------------------- mutators
TargetId(s, roomId) == IF roomId = Null THEN s.viewedRoomId ELSE roomId

\* togglePanel that opens the panel instead of flipping the flag
togglePanel_opens(s, roomId) ==
    LET rId == TargetId(s, roomId)
    IN IF ~s.byRoom[rId].present THEN Throw(s)
       ELSE emitAndUpdateSettings([s EXCEPT !.byRoom[rId].isOpen = TRUE, !.branch = "toggle"])

togglePanel(s, roomId) ==
    LET rId == TargetId(s, roomId)
    IN IF ~s.byRoom[rId].present THEN Throw(s)
       ELSE emitAndUpdateSettings(
                [s EXCEPT !.byRoom[rId].isOpen = ~s.byRoom[rId].isOpen, !.branch = "toggle"])

\* variant: a pop that also closes the panel
popRightPanel_closes(s, roomId) ==
    LET rId == TargetId(s, roomId)
        roomCache == s.byRoom[rId]
    IN IF ~roomCache.present THEN Throw(s)
       ELSE emitAndUpdateSettings(
                [s EXCEPT !.byRoom[rId].history =
                              IF Len(roomCache.history) = 0 THEN <<>>
                              ELSE SubSeq(roomCache.history, 1, Len(roomCache.history) - 1),
                          !.byRoom[rId].isOpen = FALSE,
                          !.branch = "pop"])

popRightPanel(s, roomId) ==
    LET rId == TargetId(s, roomId)
        roomCache == s.byRoom[rId]
    IN IF ~roomCache.present THEN Throw(s)
       ELSE emitAndUpdateSettings(
                [s EXCEPT !.byRoom[rId].history =
                              IF Len(roomCache.history) = 0 THEN <<>>
                              ELSE SubSeq(roomCache.history, 1, Len(roomCache.history) - 1),
                          !.branch = "pop"])

pushRightPanel(s, phase, panelState, allowClose, roomId) ==
    LET rId == TargetId(s, roomId)
        redirect == getVerificationRedirect(phase, panelState)
        targetPhase == IF redirect.present THEN redirect.phase ELSE phase
        pState == IF redirect.present THEN redirect.state ELSE panelState
        roomCache == s.byRoom[rId]
    IN IF ~isPhaseActionIsValid(s, targetPhase) THEN [s EXCEPT !.branch = "rejected"]
       ELSE IF roomCache.present
       THEN emitAndUpdateSettings(
                [s EXCEPT !.byRoom[rId].history =
                              Append(roomCache.history, [phase |-> targetPhase, state |-> pState]),
                          !.byRoom[rId].isOpen = IF allowClose THEN roomCache.isOpen ELSE TRUE,
                          !.branch = "append"])
       \* the new record is assigned to the local roomCache only, never to byRoom
       ELSE emitAndUpdateSettings([s EXCEPT !.branch = "create"])

\* setRightPanel whose in-place update opens the panel as the hard reset does
setRightPanel_updateOpens(s, phase, state, allowClose, roomId) ==
    LET rId == TargetId(s, roomId)
        redirect == getVerificationRedirect(phase, state)
        targetPhase == IF redirect.present THEN redirect.phase ELSE phase
        panelState == IF redirect.present THEN redirect.state ELSE state
    IN IF ~isPhaseActionIsValid(s, targetPhase) THEN [s EXCEPT !.branch = "rejected"]
       ELSE IF targetPhase = currentPanel(s).phase /\ allowClose /\ ~Truthy(panelState)
       THEN togglePanel(s, rId)
       ELSE IF targetPhase = currentPanelForRoom(s, rId).phase /\ Truthy(panelState)
       THEN LET hist == s.byRoom[rId].history
            IN IF ~s.byRoom[rId].present \/ Len(hist) = 0 THEN Throw(s)
               ELSE emitAndUpdateSettings(
                        [s EXCEPT !.byRoom[rId].history[Len(hist)].state = panelState,
                                  !.byRoom[rId].isOpen = TRUE,
                                  !.branch = "update"])
       ELSE IF targetPhase # currentPanel(s).phase
       THEN setRightPanelCache([s EXCEPT !.branch = "reset"], targetPhase, panelState)
       ELSE [s EXCEPT !.branch = IF ~allowClose /\ ~Truthy(panelState)
                                 THEN "pinned" ELSE "kept"]

\* variant: setRightPanel that toggles whether or not the panel may be closed
setRightPanel_togglesPinned(s, phase, state, allowClose, roomId) ==
    LET rId == TargetId(s, roomId)
        redirect == getVerificationRedirect(phase, state)
        targetPhase == IF redirect.present THEN redirect.phase ELSE phase
        panelState == IF redirect.present THEN redirect.state ELSE state
    IN IF ~isPhaseActionIsValid(s, targetPhase) THEN [s EXCEPT !.branch = "rejected"]
       ELSE IF targetPhase = currentPanel(s).phase /\ ~Truthy(panelState)
       THEN togglePanel(s, rId)
       ELSE IF targetPhase = currentPanelForRoom(s, rId).phase /\ Truthy(panelState)
       THEN LET hist == s.byRoom[rId].history
            IN IF ~s.byRoom[rId].present \/ Len(hist) = 0 THEN Throw(s)
               ELSE emitAndUpdateSettings(
                        [s EXCEPT !.byRoom[rId].history[Len(hist)].state = panelState,
                                  !.branch = "update"])
       ELSE IF targetPhase # currentPanel(s).phase
       THEN setRightPanelCache([s EXCEPT !.branch = "reset"], targetPhase, panelState)
       ELSE [s EXCEPT !.branch = IF ~allowClose /\ ~Truthy(panelState)
                                 THEN "pinned" ELSE "kept"]

setRightPanel(s, phase, state, allowClose, roomId) ==
    LET rId == TargetId(s, roomId)
        redirect == getVerificationRedirect(phase, state)
        targetPhase == IF redirect.present THEN redirect.phase ELSE phase
        panelState == IF redirect.present THEN redirect.state ELSE state
    IN IF ~isPhaseActionIsValid(s, targetPhase) THEN [s EXCEPT !.branch = "rejected"]
       ELSE IF targetPhase = currentPanel(s).phase /\ allowClose /\ ~Truthy(panelState)
       THEN togglePanel(s, rId)
       ELSE IF targetPhase = currentPanelForRoom(s, rId).phase /\ Truthy(panelState)
       THEN LET hist == s.byRoom[rId].history
            IN IF ~s.byRoom[rId].present \/ Len(hist) = 0 THEN Throw(s)
               ELSE emitAndUpdateSettings(
                        [s EXCEPT !.byRoom[rId].history[Len(hist)].state = panelState,
                                  !.branch = "update"])
       ELSE IF targetPhase # currentPanel(s).phase
       THEN setRightPanelCache([s EXCEPT !.branch = "reset"], targetPhase, panelState)
       ELSE [s EXCEPT !.branch = IF ~allowClose /\ ~Truthy(panelState)
                                 THEN "pinned" ELSE "kept"]

\* ---------------------------------------------------------------- events
\* variant: the member-info coercion applied whatever the kind of the event
onDispatch_coerceAnyway(s, payload) ==
    IF payload.room_id = s.viewedRoomId
    THEN [s EXCEPT !.branch = "skip"]
    ELSE LET modeAction == IF s.isViewingRoom = "true" THEN ViewRoom ELSE ViewGroup
             coerced ==
                 IF modeAction # payload.action /\ currentPanel(s).phase \in MEMBER_INFO_PHASES
                 THEN setRightPanelCache([s EXCEPT !.branch = "coerce"], RoomMemberList, EmptyState)
                 ELSE [s EXCEPT !.branch = "switch"]
         IN [coerced EXCEPT !.viewedRoomId = payload.room_id,
                            !.isViewingRoom = IF payload.action = ViewRoom
                                              THEN "true" ELSE "false"]

\* variant: no test of the event's conversation id against the active one
onDispatch_noSkip(s, payload) ==
    LET modeAction == IF s.isViewingRoom = "true" THEN ViewRoom ELSE ViewGroup
        coerced ==
            IF modeAction # payload.action
            THEN IF payload.action = ViewRoom /\ currentPanel(s).phase \in MEMBER_INFO_PHASES
                 THEN setRightPanelCache([s EXCEPT !.branch = "coerce"], RoomMemberList, EmptyState)
                 ELSE IF payload.action = ViewGroup /\ currentPanel(s).phase = GroupMemberInfo
                 THEN setRightPanelCache([s EXCEPT !.branch = "coerce"], GroupMemberList, EmptyState)
                 ELSE [s EXCEPT !.branch = "switch"]
            ELSE [s EXCEPT !.branch = "switch"]
    IN [coerced EXCEPT !.viewedRoomId = payload.room_id,
                       !.isViewingRoom = IF payload.action = ViewRoom
                                         THEN "true" ELSE "false"]

\* variant: the active conversation updated before the coercion is applied
onDispatch_coerceAfterMove(s, payload) ==
    IF payload.room_id = s.viewedRoomId
    THEN [s EXCEPT !.branch = "skip"]
    ELSE LET modeAction == IF s.isViewingRoom = "true" THEN ViewRoom ELSE ViewGroup
             phase == currentPanel(s).phase
             moved == [s EXCEPT !.viewedRoomId = payload.room_id,
                                !.isViewingRoom = IF payload.action = ViewRoom
                                                  THEN "true" ELSE "false"]
         IN IF modeAction # payload.action
            THEN IF payload.action = ViewRoom /\ phase \in MEMBER_INFO_PHASES
                 THEN setRightPanelCache([moved EXCEPT !.branch = "coerce"], RoomMemberList, EmptyState)
                 ELSE IF payload.action = ViewGroup /\ phase = GroupMemberInfo
                 THEN setRightPanelCache([moved EXCEPT !.branch = "coerce"], GroupMemberList, EmptyState)
                 ELSE [moved EXCEPT !.branch = "switch"]
            ELSE [moved EXCEPT !.branch = "switch"]

onDispatch(s, payload) ==
    IF payload.room_id = s.viewedRoomId
    THEN [s EXCEPT !.branch =
             IF (payload.action = ViewRoom) = (s.isViewingRoom = "true")
             THEN "skip" ELSE "skipOtherMode"]
    ELSE LET modeAction == IF s.isViewingRoom = "true" THEN ViewRoom ELSE ViewGroup
             coerced ==
                 IF modeAction # payload.action
                 THEN IF payload.action = ViewRoom /\ currentPanel(s).phase \in MEMBER_INFO_PHASES
                      THEN setRightPanelCache([s EXCEPT !.branch = "coerce"], RoomMemberList, EmptyState)
                      ELSE IF payload.action = ViewGroup /\ currentPanel(s).phase = GroupMemberInfo
                      THEN setRightPanelCache([s EXCEPT !.branch = "coerce"], GroupMemberList, EmptyState)
                      ELSE [s EXCEPT !.branch = "switch"]
                 ELSE [s EXCEPT !.branch = "switch"]
             moved == [coerced EXCEPT !.viewedRoomId = payload.room_id,
                                      !.isViewingRoom = IF payload.action = ViewRoom
                                                        THEN "true" ELSE "false"]
         IN IF moved.roomStoreToken
            THEN emitAndUpdateSettings(loadCacheFromSettings(moved))
            ELSE moved

\* The dispatcher hands an event to the callback registered in the constructor
\* for as long as it is registered.
dispatch(s, payload) ==
    IF s.dispatcherRegistered
    THEN onDispatch(s, payload)
    ELSE [s EXCEPT !.branch = "undelivered"]

\* variant: a readiness hook that registers the callback again
onReady_registers(s) ==
    emitAndUpdateSettings(loadCacheFromSettings(
        [s EXCEPT !.dispatcherRegistered = TRUE, !.branch = "ready"]))

onReady(s) == emitAndUpdateSettings(loadCacheFromSettings([s EXCEPT !.branch = "ready"]))

\* variant: a not-ready hook that leaves the callback registered
onNotReady_keepsRegistered(s) == [s EXCEPT !.branch = "notready"]

onNotReady(s) == [s EXCEPT !.dispatcherRegistered = FALSE, !.branch = "notready"]

\* ---------------------------------------------------------------- actions
\* Commit the store a call returns, and record the call.
Install(s, op, rId) ==
    /\ calls < MaxCalls
    /\ calls' = calls + 1
    /\ viewedRoomId' = s.viewedRoomId
    /\ isViewingRoom' = s.isViewingRoom
    /\ byRoom' = s.byRoom
    /\ global' = s.global
    /\ roomStoreToken' = s.roomStoreToken
    /\ dispatcherRegistered' = s.dispatcherRegistered
    /\ mxClient' = s.mxClient
    /\ settings' = s.settings
    /\ settingsGlobal' = s.settingsGlobal
    /\ last' = [op |-> op, rId |-> rId, branch |-> s.branch, emits |-> s.emits,
                threw |-> s.threw,
                preLen |-> Len(byRoom[rId].history), preOpen |-> byRoom[rId].isOpen,
                preCur |-> IF op = "pushPanel" THEN currentPanel(Store) ELSE NoPanel,
                again |-> last.op = op /\ last.rId = rId /\ ~last.threw /\ ~s.threw]

Init ==
    /\ viewedRoomId = Undefined
    /\ isViewingRoom = "undefined"
    /\ byRoom = [k \in Keys |-> NoRecord]
    /\ global = NoRecord
    /\ roomStoreToken = FALSE
    /\ dispatcherRegistered = TRUE
    /\ mxClient = FALSE
    /\ settings \in [Keys -> InitStored]
    /\ \A k \in Keys \ Rooms : settings[k] = NoStored
    /\ settingsGlobal = NoStored
    /\ calls = 0
    /\ last = [op |-> "init", rId |-> Undefined, branch |-> "none", emits |-> 0,
               threw |-> FALSE, preLen |-> 0, preOpen |-> FALSE, preCur |-> NoPanel,
               again |-> FALSE]

SetPanelCall(req, allowClose, roomId) ==
    Install(setRightPanel(Store, req.phase, req.state, allowClose, roomId),
            "setPanel", TargetId(Store, roomId))

SetPanel ==
    \E req \in Requests, allowClose \in BOOLEAN, roomId \in RoomIdArgs :
        SetPanelCall(req, allowClose, roomId)

PushPanelCall(req, allowClose, roomId) ==
    /\ Len(byRoom[TargetId(Store, roomId)].history) < MaxHist
    /\ Install(pushRightPanel(Store, req.phase, req.state, allowClose, roomId),
               "pushPanel", TargetId(Store, roomId))

PushPanel ==
    \E req \in Requests, allowClose \in BOOLEAN, roomId \in RoomIdArgs :
        PushPanelCall(req, allowClose, roomId)

PopPanelCall(roomId) ==
    Install(popRightPanel(Store, roomId), "popPanel", TargetId(Store, roomId))

PopPanel == \E roomId \in RoomIdArgs : PopPanelCall(roomId)

TogglePanelCall(roomId) ==
    Install(togglePanel(Store, roomId), "togglePanel", TargetId(Store, roomId))

TogglePanel == \E roomId \in RoomIdArgs : TogglePanelCall(roomId)

ViewConversationCall(payload) ==
    Install(dispatch(Store, payload), "view", viewedRoomId)

ViewConversation == \E payload \in Payloads : ViewConversationCall(payload)

\* ReadyWatchingStore calls onReady when a matrix client becomes available
BecomeReady ==
    /\ ~mxClient
    /\ Install(onReady([Store EXCEPT !.mxClient = TRUE]), "onReady", viewedRoomId)

\* ReadyWatchingStore calls onNotReady when its matrix client goes away
BecomeNotReady ==
    /\ mxClient
    /\ Install(onNotReady([Store EXCEPT !.mxClient = FALSE]), "onNotReady", viewedRoomId)

Next ==
    \/ SetPanel
    \/ PushPanel
    \/ PopPanel
    \/ TogglePanel
    \/ ViewConversation
    \/ BecomeReady
    \/ BecomeNotReady

Spec == Init /\ [][Next]_vars

\* The same store, also driven by events of either kind for any conversation.
ViewAnyConversation ==
    /\ calls < MaxAnyCalls
    /\ \E payload \in AnyPayloads : ViewConversationCall(payload)

NextAny ==
    \/ SetPanel
    \/ PushPanel
    \/ PopPanel
    \/ TogglePanel
    \/ ViewAnyConversation
    \/ BecomeReady
    \/ BecomeNotReady

SpecAny == Init /\ [][NextAny]_vars

TypeOK ==
    /\ viewedRoomId \in Keys
    /\ isViewingRoom \in {"undefined", "true", "false"}
    /\ \A k \in Keys : Len(byRoom[k].history) <= MaxHist
    /\ last.emits \in 0..2
    /\ calls \in 0..MaxCalls

\* ---------------------------------------------------------------- claims
\* the phase a request resolves to by the redirect rule
ResolvedPhase(req) ==
    IF getVerificationRedirect(req.phase, req.state).present
    THEN getVerificationRedirect(req.phase, req.state).phase ELSE req.phase

\* the state a request resolves to by the redirect rule
ResolvedState(req) ==
    IF getVerificationRedirect(req.phase, req.state).present
    THEN getVerificationRedirect(req.phase, req.state).state ELSE req.state

\* the phase is recognized and of the family of the mode the store is in; a
\* mode that is not set yet counts as group mode, as the truthiness tests of
\* the validity check make it
ValidForMode(phase) ==
    \/ isViewingRoom = "true" /\ phase \in RightPanelPhases \ GROUP_PHASES
    \/ isViewingRoom # "true" /\ phase \in GROUP_PHASES

\* the phase is unrecognized or of the family opposite to the mode the store is in
InvalidForMode(phase) ==
    \/ phase \notin RightPanelPhases
    \/ isViewingRoom = "true" /\ phase \in GROUP_PHASES
    \/ isViewingRoom # "true" /\ phase \notin GROUP_PHASES

\* C1: every valid pushPanel on the active conversation makes its history one
\* entry longer and makes the pushed phase (after the redirect) the current
\* phase, so that k pushes on a fresh conversation give a history of length k.
C1_PushGrowsByOne ==
    [][\A req \in Requests, allowClose \in BOOLEAN :
          (/\ viewedRoomId \in ConvIds
           /\ ValidForMode(ResolvedPhase(req))
           /\ PushPanelCall(req, allowClose, Null))
          => /\ Len(roomPhaseHistory(Store')) = Len(roomPhaseHistory(Store)) + 1
             /\ currentPanel(Store').phase = ResolvedPhase(req)]_vars

\* C2: the history of every existing conversation record is non-empty.
C2_HistoryNeverEmpty ==
    \A k \in Keys : byRoom[k].present => Len(byRoom[k].history) >= 1

\* C3: a non-null current phase is of the family of the store's mode: never a
\* room phase in group mode, never a group phase in room mode.
C3_PhaseMatchesMode ==
    currentPanel(Store).phase # NullPhase =>
        /\ isViewingRoom = "false" => currentPanel(Store).phase \in GROUP_PHASES
        /\ isViewingRoom = "true" => currentPanel(Store).phase \notin GROUP_PHASES

\* C4: every setPanel, pushPanel, popPanel, togglePanel call and every
\* view-conversation event that changes the store's state emits exactly one
\* UPDATE notification.
C4_OneUpdatePerMutation ==
    [][(/\ last'.op \in {"setPanel", "pushPanel", "popPanel", "togglePanel", "view"}
        /\ <<viewedRoomId, isViewingRoom, byRoom, global>>'
              # <<viewedRoomId, isViewingRoom, byRoom, global>>)
       => last'.emits = 1]_vars

\* the fields of a store value that C5 says a rejected request leaves alone
StoreFields(s) ==
    <<s.viewedRoomId, s.isViewingRoom, s.byRoom, s.global, s.settings, s.settingsGlobal>>

\* C5: a setPanel or pushPanel request whose resolved phase is unrecognized or
\* of the family opposite to the mode (an unset mode counting as group mode,
\* as in the validity check) changes no record, flag, active conversation,
\* mode or persisted value, and emits no UPDATE notification.
C5_RejectedRequestChangesNothing ==
    \A req \in Requests, allowClose \in BOOLEAN, roomId \in RoomIdArgs :
        InvalidForMode(ResolvedPhase(req)) =>
            LET afterSet == setRightPanel(Store, req.phase, req.state, allowClose, roomId)
                afterPush == pushRightPanel(Store, req.phase, req.state, allowClose, roomId)
            IN /\ StoreFields(afterSet) = StoreFields(Store)
               /\ afterSet.emits = 0
               /\ StoreFields(afterPush) = StoreFields(Store)
               /\ afterPush.emits = 0

\* a request has been rejected in room mode, on a conversation that has a record
C5_Witness ==
    /\ last.op \in {"setPanel", "pushPanel"}
    /\ last.branch = "rejected"
    /\ last.emits = 0
    /\ isViewingRoom = "true"
    /\ byRoom[viewedRoomId].present

\* C6: setPanel(Y) with no state, when the current phase is not Y and Y is
\* valid for the mode, makes the active conversation's record exactly
\* {history: [{Y, {}}], isOpen: true}, whatever its history and flag were.
C6_SetOtherPhaseResets ==
    \A req \in Requests, allowClose \in BOOLEAN, roomId \in RoomIdArgs :
        (/\ ~Truthy(req.state)
         /\ ValidForMode(req.phase)
         /\ currentPanel(Store).phase # req.phase)
        => setRightPanel(Store, req.phase, req.state, allowClose, roomId).byRoom[viewedRoomId]
             = [present |-> TRUE,
                history |-> <<[phase |-> req.phase, state |-> EmptyState]>>,
                isOpen |-> TRUE]

\* a hard reset has replaced a closed two-entry history of the active conversation
C6_Witness ==
    /\ last.op = "setPanel"
    /\ last.branch = "reset"
    /\ last.rId = viewedRoomId
    /\ last.preLen = 2
    /\ ~last.preOpen
    /\ Len(byRoom[viewedRoomId].history) = 1
    /\ byRoom[viewedRoomId].isOpen

\* C7: setPanel(X) with allowClose = true and no state, when the current
\* phase is X, does what togglePanel() does: the open flag of the record
\* flips and nothing else of the records changes.
C7_SetSamePhaseToggles ==
    [][\A req \in Requests :
          (/\ last'.op = "setPanel"
           /\ ~Truthy(req.state)
           /\ currentPanel(Store).phase = req.phase
           /\ SetPanelCall(req, TRUE, Null))
          => /\ byRoom' = [byRoom EXCEPT ![viewedRoomId].isOpen = ~byRoom[viewedRoomId].isOpen]
             /\ last'.emits = 1]_vars

\* C8 as stated: setPanel(X, S) with S present, when the current phase is X,
\* keeps the history length, every entry's phase and the open flag, and
\* makes S the state of the current entry.
C8_Original ==
    [][\A req \in Requests, allowClose \in BOOLEAN :
          (/\ last'.op = "setPanel"
           /\ Truthy(req.state)
           /\ currentPanel(Store).phase = req.phase
           /\ SetPanelCall(req, allowClose, Null))
          => /\ Len(roomPhaseHistory(Store')) = Len(roomPhaseHistory(Store))
             /\ \A i \in 1..Len(roomPhaseHistory(Store)) :
                    roomPhaseHistory(Store')[i].phase = roomPhaseHistory(Store)[i].phase
             /\ currentPanel(Store').state = req.state
             /\ isOpenForRoom(Store') = isOpenForRoom(Store)]_vars

\* C8 amended: setPanel(X, S) with S present and no conversation id, when the
\* phase the redirect rule resolves (X, S) to is valid for the mode and is the
\* current phase, keeps the history length, every entry's phase and the open
\* flag, and makes the resolved state the state of the current entry.
C8_UpdateInPlace ==
    \A req \in Requests, allowClose \in BOOLEAN :
        (/\ Truthy(req.state)
         /\ ValidForMode(ResolvedPhase(req))
         /\ currentPanel(Store).phase = ResolvedPhase(req))
        => LET after == setRightPanel(Store, req.phase, req.state, allowClose, Null)
           IN /\ ~after.threw
              /\ Len(roomPhaseHistory(after)) = Len(roomPhaseHistory(Store))
              /\ \A i \in 1..Len(roomPhaseHistory(Store)) :
                     roomPhaseHistory(after)[i].phase = roomPhaseHistory(Store)[i].phase
              /\ currentPanel(after).state = ResolvedState(req)
              /\ isOpenForRoom(after) = isOpenForRoom(Store)

\* an in-place update has been made on the closed record of the active conversation
C8_Witness ==
    /\ last.op = "setPanel"
    /\ last.branch = "update"
    /\ last.rId = viewedRoomId
    /\ last.emits = 1
    /\ Len(byRoom[viewedRoomId].history) = last.preLen
    /\ ~last.preOpen
    /\ ~byRoom[viewedRoomId].isOpen
    /\ Truthy(currentPanel(Store).state)

\* C9: a popPanel that follows a valid pushPanel on the same conversation
\* completes and restores the current entry that held before the push.
C9_PopUndoesPush ==
    [][(/\ viewedRoomId \in ConvIds
        /\ last.op = "pushPanel"
        /\ last.branch \in {"append", "create"}
        /\ last'.op = "popPanel"
        /\ last'.rId = last.rId)
       => /\ ~last'.threw
          /\ currentPanel(Store') = last.preCur]_vars

\* C10: togglePanel flips the open flag of its target record and changes no
\* history; a second togglePanel on the same conversation restores the flag
\* that held before the first.
C10_ToggleFlips ==
    [][(last'.op = "togglePanel" /\ ~last'.threw)
       => /\ byRoom'[last'.rId].isOpen = ~byRoom[last'.rId].isOpen
          /\ \A k \in Keys : byRoom'[k].history = byRoom[k].history
          /\ (last.op = "togglePanel" /\ ~last.threw /\ last.rId = last'.rId)
                => byRoom'[last'.rId].isOpen = last.preOpen]_vars

\* two togglePanel calls in a row have been made on one conversation
C10_Witness ==
    /\ last.op = "togglePanel"
    /\ last.again
    /\ ~last.threw
    /\ last.emits = 1
    /\ byRoom[last.rId].present
    /\ byRoom[last.rId].isOpen = ~last.preOpen


\* C11: in room mode, setPanel or pushPanel of RoomMemberInfo with a member
\* makes the current entry {EncryptionPanel, {verificationRequest: R, member}}
\* when the member has a pending request R, and the requested phase and state
\* when it has none.
C11_RedirectBecomesCurrent ==
    [][\A req \in Requests, allowClose \in BOOLEAN :
          (/\ last'.op \in {"setPanel", "pushPanel"}
           /\ isViewingRoom = "true"
           /\ req.phase = RoomMemberInfo
           /\ Truthy(req.state)
           /\ SetPanelCall(req, allowClose, Null) \/ PushPanelCall(req, allowClose, Null))
          => currentPanel(Store') =
                IF pendingVerificationRequestForUser(req.state.member) # "none"
                THEN [phase |-> EncryptionPanel,
                      state |-> [present |-> TRUE, member |-> req.state.member,
                                 verificationRequest |->
                                     pendingVerificationRequestForUser(req.state.member)]]
                ELSE [phase |-> req.phase, state |-> req.state]]_vars

\* C12 as stated: a view_group event that moves the store from room A, whose
\* current phase is RoomMemberInfo, to group B makes {RoomMemberList, {}} the
\* top of A's record, and B's record is the one persisted for B.
C12_Original ==
    [][(/\ last'.op = "view"
        /\ isViewingRoom = "true"
        /\ viewedRoomId \in Rooms
        /\ currentPanel(Store).phase = RoomMemberInfo
        /\ viewedRoomId' \in Groups
        /\ isViewingRoom' = "false")
       => /\ currentPanel([Store' EXCEPT !.viewedRoomId = viewedRoomId])
             = [phase |-> RoomMemberList, state |-> EmptyState]
          /\ byRoom'[viewedRoomId'] = convertToStateRoom(settings[viewedRoomId'])]_vars

\* C12 amended: a view_group event that moves the store from room A, whose
\* current phase is RoomMemberInfo, to group B leaves every record as it
\* was, A's included, and the current entry after it is the top of B's own
\* record in memory.
C12_SwitchKeepsRecords ==
    \A payload \in AnyPayloads :
        (/\ isViewingRoom = "true"
         /\ viewedRoomId \in Rooms
         /\ currentPanel(Store).phase = RoomMemberInfo
         /\ payload.action = ViewGroup
         /\ payload.room_id \in Groups)
        => LET after == onDispatch(Store, payload)
           IN /\ after.byRoom = byRoom
              /\ after.viewedRoomId = payload.room_id
              /\ after.isViewingRoom = "false"
              /\ currentPanel(after)
                    = currentPanel([Store EXCEPT !.viewedRoomId = payload.room_id])

\* the store has moved from a room showing RoomMemberInfo to a group that has
\* a record of its own
C12_Witness ==
    /\ last.op = "view"
    /\ last.branch = "switch"
    /\ last.rId \in Rooms
    /\ currentPanel([Store EXCEPT !.viewedRoomId = last.rId]).phase = RoomMemberInfo
    /\ viewedRoomId \in Groups
    /\ isViewingRoom = "false"
    /\ currentPanel(Store).phase = GroupMemberList

\* C13: a valid pushPanel on a conversation with no record creates the record
\* {history: [entry], isOpen: !allowClose}; on a conversation with a record
\* it appends the entry, opens the panel when allowClose is false and leaves
\* the flag alone when allowClose is true.
C13_PushCreatesOrAppends ==
    [][\A req \in Requests, allowClose \in BOOLEAN, roomId \in RoomIdArgs :
          (/\ last'.op = "pushPanel"
           /\ ValidForMode(ResolvedPhase(req))
           /\ PushPanelCall(req, allowClose, roomId))
          => LET rId == TargetId(Store, roomId)
                 entry == [phase |-> ResolvedPhase(req), state |-> ResolvedState(req)]
             IN byRoom'[rId] =
                   IF byRoom[rId].present
                   THEN [present |-> TRUE,
                         history |-> Append(byRoom[rId].history, entry),
                         isOpen |-> IF allowClose THEN byRoom[rId].isOpen ELSE TRUE]
                   ELSE [present |-> TRUE, history |-> <<entry>>, isOpen |-> ~allowClose]]_vars

\* C14: no setPanel or pushPanel call throws; a call throws only when it is a
\* popPanel or togglePanel on a conversation that has no record.
C14_OnlyPopAndToggleThrow ==
    last.threw => /\ last.op \in {"popPanel", "togglePanel"}
                  /\ ~byRoom[last.rId].present

\* C15: a mutator called with a conversation id other than the active one
\* changes the record of that conversation only, and a hard reset by setPanel
\* leaves the single entry in that conversation's record.
C15_MutatorActsOnTarget ==
    [][(/\ last'.op \in {"setPanel", "pushPanel", "popPanel", "togglePanel"}
        /\ viewedRoomId \in ConvIds
        /\ last'.rId # viewedRoomId)
       => /\ \A k \in Keys \ {last'.rId} : byRoom'[k] = byRoom[k]
          /\ last'.branch = "reset"
                => /\ byRoom'[last'.rId].present
                   /\ Len(byRoom'[last'.rId].history) = 1
                   /\ byRoom'[last'.rId].isOpen]_vars

\* C16: a view-conversation event of either kind whose conversation id is the
\* active one changes no field of the store, no persisted value, and emits no
\* UPDATE notification, whatever the mode of the event.
C16_SameConversationIsNoOp ==
    \A payload \in AnyPayloads :
        payload.room_id = viewedRoomId
        => LET after == onDispatch(Store, payload)
           IN /\ StoreFields(after) = StoreFields(Store)
              /\ after.roomStoreToken = roomStoreToken
              /\ after.dispatcherRegistered = dispatcherRegistered
              /\ after.mxClient = mxClient
              /\ after.emits = 0
              /\ ~after.threw

\* an event of the other mode has been handled for the active conversation,
\* which has a record
C16_Witness ==
    /\ last.op = "view"
    /\ last.branch = "skipOtherMode"
    /\ last.rId = viewedRoomId
    /\ last.emits = 0
    /\ byRoom[viewedRoomId].present

\* C17: once the store is ready, a view-conversation event for another
\* conversation emits an UPDATE notification, and when the new conversation
\* has no record in memory its record becomes the one restored from settings.
C17_ViewReloadsAndNotifies ==
    [][(/\ last'.op = "view"
        /\ mxClient
        /\ viewedRoomId' # viewedRoomId)
       => /\ last'.emits >= 1
          /\ (~byRoom[viewedRoomId'].present /\ settings[viewedRoomId'].present)
                => byRoom'[viewedRoomId'] = convertToStateRoom(settings[viewedRoomId'])]_vars

\* the record the phase coercion of a view event leaves behind
CoercedRecord(phase) ==
    [present |-> TRUE, history |-> <<[phase |-> phase, state |-> EmptyState]>>, isOpen |-> TRUE]

\* C18: a view-conversation event for another conversation, of a mode other
\* than the store's, resets the record of the conversation being left to
\* {[RoomMemberList, {}], open} when it is a room event and the current phase
\* is a member-info phase, to {[GroupMemberList, {}], open} when it is a group
\* event and the current phase is GroupMemberInfo, and changes no record
\* otherwise; the conversation being left is the one that is reset.
C18_CoercionOnModeChange ==
    \A payload \in AnyPayloads :
        payload.room_id # viewedRoomId
        => LET after == onDispatch(Store, payload)
               modeDiffers == (payload.action = ViewRoom) # (isViewingRoom = "true")
               cur == currentPanel(Store).phase
           IN after.byRoom =
                 IF modeDiffers /\ payload.action = ViewRoom /\ cur \in MEMBER_INFO_PHASES
                 THEN [byRoom EXCEPT ![viewedRoomId] = CoercedRecord(RoomMemberList)]
                 ELSE IF modeDiffers /\ payload.action = ViewGroup /\ cur = GroupMemberInfo
                 THEN [byRoom EXCEPT ![viewedRoomId] = CoercedRecord(GroupMemberList)]
                 ELSE byRoom

\* a view event has coerced the record of the conversation it left
C18_Witness ==
    /\ last.op = "view"
    /\ last.branch = "coerce"
    /\ viewedRoomId # last.rId
    /\ byRoom[last.rId] \in {CoercedRecord(RoomMemberList), CoercedRecord(GroupMemberList)}

\* C19: after every call or event that changes the store, the persisted
\* value of the active conversation is the serialized record of the active
\* conversation and the persisted global value is the serialized global
\* record; with no active conversation no per-conversation value is written.
C19_SettingsMirrorActiveRecord ==
    [][(/\ last'.op \in {"setPanel", "pushPanel", "popPanel", "togglePanel", "view"}
        /\ <<viewedRoomId, isViewingRoom, byRoom, global>>'
              # <<viewedRoomId, isViewingRoom, byRoom, global>>)
       => /\ settingsGlobal' = convertToStoreRoom(global')
          /\ viewedRoomId' # Undefined
                => settings'[viewedRoomId'] = convertToStoreRoom(byRoom'[viewedRoomId'])
          /\ viewedRoomId' = Undefined => settings' = settings]_vars

\* C20: a popPanel that returns removes the last entry of its target's record
\* and changes neither that record's isOpen nor any other record, the active
\* conversation or the mode; a togglePanel leaves the history of its target
\* as it was, so the current entry after closing and reopening is the same.
C20_PopAndToggleFrame ==
    [][/\ (last'.op = "popPanel" /\ ~last'.threw)
          => /\ byRoom' = [byRoom EXCEPT ![last'.rId].history =
                               IF Len(@) = 0 THEN <<>> ELSE SubSeq(@, 1, Len(@) - 1)]
             /\ viewedRoomId' = viewedRoomId
             /\ isViewingRoom' = isViewingRoom
       /\ (last'.op = "togglePanel" /\ ~last'.threw)
          => /\ byRoom' = [byRoom EXCEPT ![last'.rId].isOpen = ~@]
             /\ currentPanel(Store') = currentPanel(Store)
             /\ viewedRoomId' = viewedRoomId
             /\ isViewingRoom' = isViewingRoom]_vars

\* a pop has taken the second entry off a closed record
C20_Witness ==
    /\ last.op = "popPanel"
    /\ ~last.threw
    /\ last.preLen = 2
    /\ ~last.preOpen
    /\ byRoom[last.rId].present
    /\ Len(byRoom[last.rId].history) = 1
    /\ ~byRoom[last.rId].isOpen

\* C21: the readiness hook restores the global record and the active room's
\* record from settings where memory holds none, and emits exactly one UPDATE
\* notification; a view-conversation event that follows the not-ready hook
\* changes neither the active conversation, nor the mode, nor any record.
C21_ReadyLoadsNotReadyDetaches ==
    /\ ~mxClient
          => LET ready == onReady([Store EXCEPT !.mxClient = TRUE])
                 room == viewedRoomId \in Rooms
             IN /\ ready.emits = 1
                /\ ready.byRoom =
                      IF room /\ ~byRoom[viewedRoomId].present
                      THEN [byRoom EXCEPT ![viewedRoomId] =
                                              convertToStateRoom(settings[viewedRoomId])]
                      ELSE byRoom
                /\ ready.global =
                      IF room /\ ~global.present
                      THEN convertToStateRoom(settingsGlobal) ELSE global
    /\ mxClient
          => \A payload \in AnyPayloads :
                LET off == onNotReady([Store EXCEPT !.mxClient = FALSE])
                    after == dispatch(off, payload)
                IN /\ after.viewedRoomId = viewedRoomId
                   /\ after.isViewingRoom = isViewingRoom
                   /\ after.byRoom = byRoom
                   /\ after.emits = 0

\* readiness has restored the active room's record from settings, the
\* not-ready hook has run, and an event sent since was not delivered
C21_Witness ==
    /\ last.op = "view"
    /\ last.branch = "undelivered"
    /\ ~mxClient
    /\ ~dispatcherRegistered
    /\ viewedRoomId \in Rooms
    /\ byRoom[viewedRoomId].present
    /\ byRoom[viewedRoomId] = convertToStateRoom(settings[viewedRoomId])
    /\ byRoom[viewedRoomId].history[1] =
          [phase |-> RoomMemberInfo, state |-> MemberState("m2")]

\* C24: the callback is registered at construction only: once the not-ready
\* hook has unregistered it, it stays unregistered through every later call
\* and readiness, and no view-conversation event changes the active
\* conversation or the mode again.
C24_NeverRegisteredAgain ==
    [][~dispatcherRegistered
       => /\ ~dispatcherRegistered'
          /\ last'.op = "view"
                => /\ viewedRoomId' = viewedRoomId
                   /\ isViewingRoom' = isViewingRoom
                   /\ last'.branch = "undelivered"]_vars

\* the store is ready again after a not-ready, and an event sent to it was
\* not delivered
C24_Witness ==
    /\ last.op = "view"
    /\ last.branch = "undelivered"
    /\ mxClient
    /\ ~dispatcherRegistered
    /\ viewedRoomId = last.rId

\* C22: while the mode is unset, every setPanel and pushPanel request for a
\* recognized room phase changes nothing and emits nothing, and every group
\* phase passes the validity check: the unset mode is treated as group mode.
C22_UnsetModeIsGroupMode ==
    isViewingRoom = "undefined"
    => /\ \A req \in Requests, allowClose \in BOOLEAN, roomId \in RoomIdArgs :
             req.phase \in RightPanelPhases \ GROUP_PHASES
             => LET afterSet == setRightPanel(Store, req.phase, req.state, allowClose, roomId)
                    afterPush == pushRightPanel(Store, req.phase, req.state, allowClose, roomId)
                IN /\ afterSet = [Store EXCEPT !.branch = "rejected"]
                   /\ afterPush = [Store EXCEPT !.branch = "rejected"]
       /\ \A phase \in GROUP_PHASES :
             /\ isPhaseActionIsValid(Store, phase)
             /\ \A allowClose \in BOOLEAN :
                   setRightPanel(Store, phase, NoState, allowClose, Null).branch # "rejected"

\* with the mode still unset a group phase has been accepted, and a later
\* request has been rejected
C22_Witness ==
    /\ isViewingRoom = "undefined"
    /\ last.op \in {"setPanel", "pushPanel"}
    /\ last.branch = "rejected"
    /\ last.emits = 0
    /\ currentPanel(Store).phase \in GROUP_PHASES

\* C23: setPanel(X) with no state and allowClose = false, when the current
\* phase is X, changes no field of the store and no persisted value and emits
\* no UPDATE notification, whether the panel is open or closed.
C23_PinnedSamePhaseIsNoOp ==
    \A req \in Requests, roomId \in RoomIdArgs :
        (/\ ~Truthy(req.state)
         /\ currentPanel(Store).phase = req.phase)
        => LET after == setRightPanel(Store, req.phase, req.state, FALSE, roomId)
           IN /\ StoreFields(after) = StoreFields(Store)
              /\ after.emits = 0
              /\ ~after.threw
              /\ isOpenForRoom(after) = isOpenForRoom(Store)

\* such a call has been made on a closed panel, which is still closed
C23_Witness ==
    /\ last.op = "setPanel"
    /\ last.branch = "pinned"
    /\ last.emits = 0
    /\ viewedRoomId \in ConvIds
    /\ last.rId = viewedRoomId
    /\ byRoom[viewedRoomId].present
    /\ ~byRoom[viewedRoomId].isOpen
    /\ ~last.preOpen

\* what the persist step leaves in the settings after a call that acted on a
\* conversation other than the active one
PersistedActiveOnly(after) ==
    /\ \A k \in Keys \ {viewedRoomId} : after.settings[k] = settings[k]
    /\ after.emits = 1
          => /\ after.settingsGlobal = convertToStoreRoom(global)
             /\ viewedRoomId # Undefined
                   => after.settings[viewedRoomId] = convertToStoreRoom(byRoom[viewedRoomId])
    /\ after.branch \in {"append", "toggle"}
          => after.byRoom[viewedRoomId] = byRoom[viewedRoomId]

\* C25: pushPanel, popPanel, togglePanel and the in-place update of setPanel,
\* called with a conversation id c other than the active one, persist the
\* global record and the active conversation's record only: the persisted
\* value of c is left as it was, also when the call appended to c's record
\* or flipped its flag.
C25_OtherConversationNotPersisted ==
    \A c \in ConvIds \ {viewedRoomId} :
        /\ PersistedActiveOnly(popRightPanel(Store, c))
        /\ LET after == togglePanel(Store, c)
           IN /\ PersistedActiveOnly(after)
              /\ after.branch = "toggle" => after.byRoom[c] # byRoom[c]
        /\ \A req \in Requests, allowClose \in BOOLEAN :
              /\ LET after == pushRightPanel(Store, req.phase, req.state, allowClose, c)
                 IN /\ PersistedActiveOnly(after)
                    /\ after.branch = "append" => after.byRoom[c] # byRoom[c]
              /\ LET after == setRightPanel(Store, req.phase, req.state, allowClose, c)
                 IN after.branch = "update" => PersistedActiveOnly(after)

\* a pushPanel has appended to the record of a conversation that is not the
\* active one, and the persisted value of that conversation is now stale
C25_Witness ==
    /\ last.op = "pushPanel"
    /\ last.branch = "append"
    /\ last.emits = 1
    /\ viewedRoomId \in ConvIds
    /\ last.rId # viewedRoomId
    /\ byRoom[last.rId].present
    /\ settings[last.rId] # convertToStoreRoom(byRoom[last.rId])

====
